---- MODULE Spec2Model ----
(***************************************************************************)
(* Model of the mc-map-generator service: the job tracker of              *)
(* src/src/server.js (the jobs map and the activeJobs counter), the input  *)
(* validation and id generation of src/src/utils.js, and the result       *)
(* objects of generateMap (screenshot.js, listed in src/README.md).       *)
(* SpecRender follows one call of the size-parameterized generateMap       *)
(* statement by statement, with the crop that processImage computes.       *)
(*                                                                         *)
(* JavaScript strings are sequences of one-character strings, so that      *)
(* template literals, trim() and toLowerCase() are computed, not assumed.  *)
(* JavaScript objects are functions from field names to values, so that    *)
(* the object spread {...a, ...b} is computed field by field.              *)
(***************************************************************************)
EXTENDS Integers, Sequences, FiniteSets, Bags, TLC

\* ---------------------------------------------------------------- bounds
\* Number of submissions that may be admitted in one behaviour.
MaxAdmits == 4

\* ------------------------------------------------------ program constants
MAX_CONCURRENT_JOBS == 3
maxAge == 86400000

\* ------------------------------------------------------------ JS values
\* A value of a JSON request body (or a missing field): its typeof, its
\* characters when it is a string, its value when it is a finite number,
\* and "Infinity"/"NaN" when it is a non-finite number.
JsString(cs) == [type |-> "string", chars |-> cs, num |-> 0, special |-> ""]
JsNumber(n) == [type |-> "number", chars |-> <<>>, num |-> n, special |-> ""]
JsInfinity == [type |-> "number", chars |-> <<>>, num |-> 0, special |-> "Infinity"]
JsNaN == [type |-> "number", chars |-> <<>>, num |-> 0, special |-> "NaN"]
JsUndefined == [type |-> "undefined", chars |-> <<>>, num |-> 0, special |-> ""]
JsNull == [type |-> "object", chars |-> <<>>, num |-> 0, special |-> "null"]
JsTrue == [type |-> "boolean", chars |-> <<>>, num |-> 1, special |-> ""]

DigitChars == <<"0", "1", "2", "3", "4", "5", "6", "7", "8", "9">>

RECURSIVE NatToChars(_)
NatToChars(n) ==
  IF n < 10 THEN <<DigitChars[n + 1]>>
  ELSE NatToChars(n \div 10) \o <<DigitChars[(n % 10) + 1]>>

\* String(v) as a template literal `${v}` computes it.
ToStringChars(v) ==
  CASE v.type = "string" -> v.chars
    [] v.type = "number" /\ v.special = "Infinity" -> <<"I", "n", "f", "i", "n", "i", "t", "y">>
    [] v.type = "number" /\ v.special = "NaN" -> <<"N", "a", "N">>
    [] v.type = "number" -> NatToChars(v.num)
    [] v.type = "undefined" -> <<"u", "n", "d", "e", "f", "i", "n", "e", "d">>
    [] v.type = "boolean" -> IF v.num = 1 THEN <<"t", "r", "u", "e">> ELSE <<"f", "a", "l", "s", "e">>
    [] OTHER -> <<"n", "u", "l", "l">>

IsWhitespace(c) == c \in {" ", "\t", "\n"}

RECURSIVE TrimStart(_)
TrimStart(cs) ==
  IF cs # <<>> /\ IsWhitespace(Head(cs)) THEN TrimStart(Tail(cs)) ELSE cs

RECURSIVE TrimEnd(_)
TrimEnd(cs) ==
  IF cs # <<>> /\ IsWhitespace(cs[Len(cs)]) THEN TrimEnd(SubSeq(cs, 1, Len(cs) - 1)) ELSE cs

Trim(cs) == TrimEnd(TrimStart(cs))

UpperChars == <<"A", "B", "C", "D", "E", "F", "G", "H", "I", "J", "K", "L", "M",
                "N", "O", "P", "Q", "R", "S", "T", "U", "V", "W", "X", "Y", "Z">>
LowerChars == <<"a", "b", "c", "d", "e", "f", "g", "h", "i", "j", "k", "l", "m",
                "n", "o", "p", "q", "r", "s", "t", "u", "v", "w", "x", "y", "z">>

LowerChar(c) ==
  IF \E i \in 1..26 : UpperChars[i] = c
  THEN LowerChars[CHOOSE i \in 1..26 : UpperChars[i] = c]
  ELSE c

ToLowerCase(cs) == [i \in 1..Len(cs) |-> LowerChar(cs[i])]

\* {...a, ...b}: the fields of both, b's value where both have the field.
Spread(a, b) ==
  [k \in (DOMAIN a) \cup (DOMAIN b) |-> IF k \in DOMAIN b THEN b[k] ELSE a[k]]

\* new Date(ms).toISOString() and new Date(iso).getTime(): the ISO text
\* carries the millisecond count.
ToISOString(ms) == <<"ISO", ms>>
DateGetTime(iso) == iso[2]

\* ------------------------------------------------------------- utils.js
OVERWORLD == <<"o", "v", "e", "r", "w", "o", "r", "l", "d">>
NETHER == <<"n", "e", "t", "h", "e", "r">>
END == <<"e", "n", "d">>

validDimensions == <<OVERWORLD, NETHER, END>>

generateJobId(seed, dimension, timestamp) ==
  <<"s", "e", "e", "d", "-">> \o ToStringChars(seed) \o <<"-">> \o dimension
    \o <<"-">> \o NatToChars(timestamp)

isValidSeed(seed) ==
  \/ seed.type = "string" /\ Len(Trim(seed.chars)) > 0
  \/ seed.type = "number" /\ seed.special # "NaN"

\* dimension?.toLowerCase(): undefined for undefined and null, a TypeError
\* for every other value that is not a string.
DimensionLowerThrows(dimension) ==
  dimension.type \notin {"string", "undefined"} /\ dimension # JsNull

isValidDimension(dimension) ==
  /\ dimension.type = "string"
  /\ \E i \in 1..Len(validDimensions) : validDimensions[i] = ToLowerCase(dimension.chars)

\* Variant of normalizeDimension: the dimension is kept as it was given.
normalizeDimension_asGiven(dimension) ==
  IF dimension.type = "string" /\ dimension.chars # <<>>
  THEN dimension.chars
  ELSE OVERWORLD

normalizeDimension(dimension) ==
  IF dimension.type = "string" /\ dimension.chars # <<>>
  THEN ToLowerCase(dimension.chars)
  ELSE OVERWORLD

createErrorResponse(code, error) ==
  [code |-> code, success |-> FALSE, error |-> error, jobId |-> "null", retryable |-> FALSE]

createSuccessResponse(data) == Spread([code |-> 200, success |-> TRUE], data)

\* ------------------------------------------- screenshot.js: generateMap
\* The errors an awaited stage of generateMap can throw, by stage.
StageErrors == {"navigate"}
Outcomes == {"ok"} \cup StageErrors

size == 8

\* Variant of generateMapResult: the catch block returns its object without
\* a status field.
generateMapResult_noFailedStatus(seed, dimension, jobId, outcome, t) ==
  IF outcome = "ok"
  THEN LET filename == <<ToStringChars(seed), dimension, size, t>>
       IN [success |-> TRUE,
           jobId |-> jobId,
           status |-> "ready",
           imageUrl |-> <<"/generated-maps/", filename>>,
           filename |-> filename,
           metadata |-> [seed |-> seed, dimension |-> dimension, size |-> size,
                         generatedAt |-> ToISOString(t),
                         fileSize |-> "KB",
                         dimensions |-> <<size * 125, size * 125>>]]
  ELSE [success |-> FALSE,
        jobId |-> jobId,
        error |-> "GENERATION_FAILED",
        message |-> <<"Failed to generate map: ", outcome>>,
        retryable |-> TRUE]

\* The object generateMap resolves with: the value returned from the try
\* block when every stage succeeded, the value returned from the catch
\* block when a stage threw. t is the clock reading of Date.now().
generateMapResult(seed, dimension, jobId, outcome, t) ==
  IF outcome = "ok"
  THEN LET filename == <<ToStringChars(seed), dimension, size, t>>
       IN [success |-> TRUE,
           jobId |-> jobId,
           status |-> "ready",
           imageUrl |-> <<"/generated-maps/", filename>>,
           filename |-> filename,
           metadata |-> [seed |-> seed, dimension |-> dimension, size |-> size,
                         generatedAt |-> ToISOString(t),
                         fileSize |-> "KB",
                         dimensions |-> <<size * 125, size * 125>>]]
  ELSE [success |-> FALSE,
        jobId |-> jobId,
        status |-> "failed",
        error |-> "GENERATION_FAILED",
        message |-> <<"Failed to generate map: ", outcome>>,
        retryable |-> TRUE]

\* ------------------------------------------------------------ server.js
VARIABLES
  jobs,        \* const jobs = new Map(): job id -> job object
  activeJobs,  \* let activeJobs
  sessions,    \* the pending generateMap promises, each with its arguments
  now,         \* the reading of Date.now()
  res,         \* the last HTTP response sent
  issued,      \* history: the job ids returned by accepted submissions
  admits,      \* history: executions of activeJobs++
  decs         \* history: executions of activeJobs--

\* One call of generateMap (screenshot.js), followed statement by statement.
VARIABLES
  args,        \* the arguments of the call: seed, dimension, jobId, size
  pc,          \* the statement the call is at
  browser,     \* let browser: "undefined" until puppeteer.launch returns
  thrown,      \* the error on its way to the catch block
  crop,        \* cropParams and finalSize handed to sharp by processImage
  resolved,    \* the value the promise of generateMap resolves with
  ran,         \* history: the awaited statements in the order they ran
  caught,      \* history: the best-effort functions whose try block threw
  closes       \* history: calls of browser.close()

renderVars == <<args, pc, browser, thrown, crop, resolved, ran, caught, closes>>

vars == <<jobs, activeJobs, sessions, now, res, issued, admits, decs,
          args, pc, browser, thrown, crop, resolved, ran, caught, closes>>

NoObject == <<>>

\* jobs.get(jobId), as the operand of a spread (undefined spreads to {}).
MapGet(m, k) == IF k \in DOMAIN m THEN m[k] ELSE NoObject

\* jobs.set(jobId, v)
MapSet(m, k, v) == [x \in (DOMAIN m) \cup {k} |-> IF x = k THEN v ELSE m[x]]

\* jobs.delete for every key of ks
MapDelete(m, ks) == [x \in (DOMAIN m) \ ks |-> m[x]]

Init ==
  /\ jobs = NoObject
  /\ activeJobs = 0
  /\ sessions = EmptyBag
  /\ now = 0
  /\ res = [code |-> 0]
  /\ issued = {}
  /\ admits = 0
  /\ decs = 0
  /\ args = NoObject
  /\ pc = "idle"
  /\ browser = "undefined"
  /\ thrown = ""
  /\ crop = NoObject
  /\ resolved = NoObject
  /\ ran = <<>>
  /\ caught = {}
  /\ closes = 0

\* The request bodies of POST /api/generate that are enumerated: seed and
\* dimension as JSON can carry them, or absent (undefined).
SeedInputs == {JsString(<<"1", "2">>), JsString(<<" ">>), JsNull}

DimensionInputs ==
  {JsUndefined, JsString(<<"O", "v", "e", "r", "W", "o", "r", "l", "d">>),
   JsString(<<"m", "o", "o", "n">>), JsNumber(5)}

\* Variant of AtCeiling: the limit check written with > in place of >=.
AtCeiling_gt(n) == n > MAX_CONCURRENT_JOBS

\* if (activeJobs >= MAX_CONCURRENT_JOBS)
AtCeiling(n) == n >= MAX_CONCURRENT_JOBS

\* Variant of InitialRecord: the record is stored as already complete.
InitialRecord_ready(seed, normalizedDimension, t) ==
  [status |-> "ready",
   seed |-> seed,
   dimension |-> normalizedDimension,
   createdAt |-> ToISOString(t),
   progress |-> "Starting map generation..."]

\* The object jobs.set stores on submission.
InitialRecord(seed, normalizedDimension, t) ==
  [status |-> "processing",
   seed |-> seed,
   dimension |-> normalizedDimension,
   createdAt |-> ToISOString(t),
   progress |-> "Starting map generation..."]

\* Variant of Decrement: the completion handler decrements twice.
Decrement_twice(n) == n - 2

\* Variant of Decrement: the completion handler leaves the counter alone.
Decrement_skip(n) == n

\* activeJobs--
Decrement(n) == n - 1

\* app.post('/api/generate'): what the handler does to the tracker, up to
\* the response.  The call of generateMap only reaches its first await, so
\* the job is left pending in sessions and its completion handlers run in
\* a later step.
SubmitTracker(seedIn, dimensionIn) ==
  LET seed == seedIn
      dimension == IF dimensionIn = JsUndefined THEN JsString(OVERWORLD) ELSE dimensionIn
      rejected(r) ==
        /\ res' = r
        /\ UNCHANGED <<jobs, activeJobs, sessions, now, issued, admits, decs>>
  IN
  IF ~isValidSeed(seed)
  THEN rejected(createErrorResponse(400, "INVALID_SEED"))
  ELSE IF DimensionLowerThrows(dimension)
  THEN rejected(createErrorResponse(500, "SERVER_ERROR"))
  ELSE IF ~isValidDimension(dimension)
  THEN rejected(createErrorResponse(400, "INVALID_DIMENSION"))
  ELSE IF AtCeiling(activeJobs)
  THEN rejected(createErrorResponse(429, "TOO_MANY_JOBS"))
  ELSE
    LET normalizedDimension == normalizeDimension(dimension)
        jobId == generateJobId(seed, normalizedDimension, now)
    IN
    /\ admits < MaxAdmits
    /\ jobs' = MapSet(jobs, jobId, InitialRecord(seed, normalizedDimension, now))
    /\ activeJobs' = activeJobs + 1
    /\ admits' = admits + 1
    /\ sessions' = sessions (+) SetToBag({[seed |-> seed,
                                           dimension |-> normalizedDimension,
                                           jobId |-> jobId]})
    /\ res' = createSuccessResponse([jobId |-> jobId,
                                     status |-> "processing",
                                     estimatedTime |-> "30-60 seconds"])
    /\ issued' = issued \cup {jobId}
    /\ UNCHANGED <<now, decs>>

\* app.post('/api/generate'), the call of generateMap left to sessions.
Submit(seedIn, dimensionIn) ==
  /\ SubmitTracker(seedIn, dimensionIn)
  /\ UNCHANGED renderVars

\* The object the .then handler stores: {...jobs.get(jobId), ...result,
\* completedAt}.
ThenRecord(m, jobId, result, t) ==
  Spread(Spread(MapGet(m, jobId), result), [completedAt |-> ToISOString(t)])

\* .then(result => ...): the handler runs to its end on the value the
\* promise of session s resolved with.
ThenTracker(s, result) ==
  /\ BagIn(s, sessions)
  /\ jobs' = MapSet(jobs, s.jobId, ThenRecord(jobs, s.jobId, result, now))
  /\ activeJobs' = Decrement(activeJobs)
  /\ decs' = decs + 1
  /\ sessions' = sessions (-) SetToBag({s})
  /\ UNCHANGED <<now, res, issued, admits>>

\* generateMap(...).then(result => ...): the promise of session s resolves
\* with the result of the given outcome and the handler runs to its end.
ThenHandler(s, outcome) ==
  /\ ThenTracker(s, generateMapResult(s.seed, s.dimension, s.jobId, outcome, now))
  /\ UNCHANGED renderVars

\* The object the .catch handler stores: {...jobs.get(jobId), status,
\* error, message, completedAt}.
CatchRecord(m, jobId, message, t) ==
  Spread(MapGet(m, jobId),
         [status |-> "failed",
          error |-> "GENERATION_FAILED",
          message |-> message,
          completedAt |-> ToISOString(t)])

\* generateMap(...).then(...).catch(...) when the .then handler throws:
\* its statements after activeJobs-- are the logInfo call, so the record
\* is stored and the counter decremented before the promise returned by
\* .then rejects; the .catch handler then runs on that rejection, stores
\* its record and decrements again.
ThenHandlerThrows(s, outcome) ==
  LET result == generateMapResult(s.seed, s.dimension, s.jobId, outcome, now)
      afterThen == MapSet(jobs, s.jobId, ThenRecord(jobs, s.jobId, result, now))
  IN
  /\ BagIn(s, sessions)
  /\ jobs' = MapSet(afterThen, s.jobId, CatchRecord(afterThen, s.jobId, "logInfo", now))
  /\ activeJobs' = Decrement(Decrement(activeJobs))
  /\ decs' = decs + 2
  /\ sessions' = sessions (-) SetToBag({s})
  /\ UNCHANGED <<now, res, issued, admits>>
  /\ UNCHANGED renderVars

\* o.k, "undefined" when the object has no such field.
Field(o, k) == IF k \in DOMAIN o THEN o[k] ELSE "undefined"

\* imageExists / getImageStats of storage.js answer for the file system:
\* the file is "missing" (fs.access fails), or it exists and fs.stat fails
\* ("nostat") or succeeds ("stat").
FileOutcomes == {"missing", "nostat", "stat"}

\* Variant of StatusRecord: a ready job whose image file is missing is
\* marked failed by the query.
StatusRecord_failsMissing(job, file) ==
  IF Field(job, "status") = "ready" /\ "filename" \in DOMAIN job /\ file = "missing"
  THEN Spread(job, [status |-> "failed"])
  ELSE job

\* The job object after the query has looked at the image file: metadata
\* gains fileSize and created when the job is ready and the file has stats.
StatusRecord(job, file) ==
  IF Field(job, "status") = "ready" /\ "filename" \in DOMAIN job /\ file = "stat"
  THEN Spread(job, [metadata |-> Spread(IF "metadata" \in DOMAIN job THEN job["metadata"] ELSE NoObject,
                                        [fileSize |-> "sizeFormatted", created |-> "birthtime"])])
  ELSE job

StatusResponse(jobId, job) ==
  createSuccessResponse(
    Spread(Spread(Spread([jobId |-> jobId, status |-> Field(job, "status")],
                         IF Field(job, "status") = "ready"
                         THEN [imageUrl |-> Field(job, "imageUrl"), metadata |-> Field(job, "metadata")]
                         ELSE NoObject),
                  IF Field(job, "status") = "processing"
                  THEN [progress |-> Field(job, "progress")]
                  ELSE NoObject),
           IF Field(job, "status") = "failed"
           THEN [error |-> Field(job, "error"), message |-> Field(job, "message"),
                 retryable |-> Field(job, "retryable")]
           ELSE NoObject))

\* app.get('/api/status/:jobId')
StatusQuery(jobId, file) ==
  /\ IF jobId \notin DOMAIN jobs
     THEN /\ res' = createErrorResponse(404, "JOB_NOT_FOUND")
          /\ jobs' = jobs
     ELSE LET job == StatusRecord(jobs[jobId], file)
          IN /\ jobs' = [jobs EXCEPT ![jobId] = job]
             /\ res' = StatusResponse(jobId, job)
  /\ UNCHANGED <<activeJobs, sessions, now, issued, admits, decs>>
  /\ UNCHANGED renderVars

\* now - new Date(job.createdAt).getTime() > maxAge; a record without
\* createdAt has age NaN, which is not greater than maxAge.
JobAgeExceeds(job, t) ==
  "createdAt" \in DOMAIN job /\ t - DateGetTime(job["createdAt"]) > maxAge

Cleanable(m, t) ==
  {jobId \in DOMAIN m : JobAgeExceeds(m[jobId], t) /\ Field(m[jobId], "status") \in {"ready", "failed"}}

\* app.post('/api/cleanup')
Cleanup ==
  /\ jobs' = MapDelete(jobs, Cleanable(jobs, now))
  /\ res' = createSuccessResponse([message |-> "Cleanup completed",
                                   cleanedCount |-> Cardinality(Cleanable(jobs, now)),
                                   remainingJobs |-> Cardinality(DOMAIN jobs')])
  /\ UNCHANGED <<activeJobs, sessions, now, issued, admits, decs>>
  /\ UNCHANGED renderVars

\* The readings of Date.now() that are enumerated: the start, and more than
\* maxAge later.
ClockReadings == {0, maxAge + 1}

\* Time passes: Date.now() reads a later value.
Tick(t) ==
  /\ t > now
  /\ now' = t
  /\ UNCHANGED <<jobs, activeJobs, sessions, res, issued, admits, decs>>
  /\ UNCHANGED renderVars

\* The job ids a status query is made with: those the service can issue
\* for the enumerated inputs, and one it never issues.
QueryIds ==
  {generateJobId(JsString(<<"1", "2">>), OVERWORLD, t) : t \in ClockReadings}
    \cup {<<"s", "e", "e", "d", "-", "x">>}

\* generateMap returns from its try block or from its catch block and
\* closes the browser in a guarded finally (README.md 507-556), so its
\* promise resolves on every path: in Next the .catch handler of the chain
\* never runs.  NextLogThrows adds the one way it can run.

\* The generateMap calls the enumerated submissions can start.
SessionKinds ==
  {[seed |-> seed, dimension |-> OVERWORLD, jobId |-> generateJobId(seed, OVERWORLD, t)] :
     seed \in {x \in SeedInputs : isValidSeed(x)}, t \in ClockReadings}

Next ==
  \/ \E seedIn \in SeedInputs, dimensionIn \in DimensionInputs : Submit(seedIn, dimensionIn)
  \/ \E s \in SessionKinds, outcome \in Outcomes : ThenHandler(s, outcome)
  \/ \E jobId \in QueryIds, file \in FileOutcomes : StatusQuery(jobId, file)
  \/ Cleanup
  \/ \E t \in ClockReadings : Tick(t)

Spec == Init /\ [][Next]_vars

\* The service with a logger that can throw (utils.js logInfo is
\* JSON.stringify and console.log; the spec treats logging as an external
\* collaborator).
NextLogThrows ==
  \/ Next
  \/ \E s \in SessionKinds, outcome \in Outcomes : ThenHandlerThrows(s, outcome)

SpecLogThrows == Init /\ [][NextLogThrows]_vars

\* Every pending generateMap call eventually settles (each browser, image
\* and storage call returns or throws), after which its handler runs.
SpecFair ==
  /\ Init
  /\ [][Next]_vars
  /\ \A s \in SessionKinds : WF_vars(\E outcome \in Outcomes : ThenHandler(s, outcome))

InFlight == BagCardinality(sessions)

IsTerminal(job) == Field(job, "status") \in {"ready", "failed"}

\* ------------------------------------------------ request bodies, sizes
\* The supported world sizes, as isValidSize of utils.js bounds them.
MinSize == 2
MaxSize == 16

\* The size fields of the request bodies that are enumerated: absent, in
\* range (the default and another), above the range.
SizeFieldInputs == {JsUndefined, JsNumber(4), JsNumber(8), JsNumber(17)}

Bodies == [seed : SeedInputs, dimension : DimensionInputs, size : SizeFieldInputs]

\* app.post('/api/generate') on a request body: the handler destructures
\* seed and dimension from req.body and reads no other field of it.
PostGenerate(body) == Submit(body.seed, body.dimension)

NextBody ==
  \/ \E body \in Bodies : PostGenerate(body)
  \/ \E s \in SessionKinds, outcome \in Outcomes : ThenHandler(s, outcome)
  \/ \E jobId \in QueryIds, file \in FileOutcomes : StatusQuery(jobId, file)
  \/ Cleanup
  \/ \E t \in ClockReadings : Tick(t)

SpecBody == Init /\ [][NextBody]_vars

\* ------------------------------------------- screenshot.js: processImage
\* Math.round(n / 2): the nearest integer, a half rounded up.
MathRound(twice) == (twice + 1) \div 2

\* Variant of cropParams: the step per size unit truncated to 62 pixels.
cropParams_unit62(sz) ==
  [left |-> 720 + (16 - sz) * 62,
   top |-> 120 + (16 - sz) * 62,
   width |-> MathRound(2 * (sz * 125)),
   height |-> MathRound(2 * (sz * 125))]

\* Variant of cropParams: the offsets move by a whole 125 pixels per size
\* unit, which anchors the window at its corner.
cropParams_cornerAnchor(sz) ==
  [left |-> 720 + (16 - sz) * 125,
   top |-> 120 + (16 - sz) * 125,
   width |-> MathRound(2 * (sz * 125)),
   height |-> MathRound(2 * (sz * 125))]

\* Variant of cropParams: the offsets of the 8k crop (1220, 620) taken as
\* the base offsets.
cropParams_base8k(sz) ==
  [left |-> MathRound(2 * 1220 + (16 - sz) * 125),
   top |-> MathRound(2 * 620 + (16 - sz) * 125),
   width |-> MathRound(2 * (sz * 125)),
   height |-> MathRound(2 * (sz * 125))]

\* const left = Math.round(720 + (16 - size) * 62.5), top, width, height of
\* the size-parameterized processImage; 62.5 is 125 halves.
cropParams(sz) ==
  [left |-> MathRound(2 * 720 + (16 - sz) * 125),
   top |-> MathRound(2 * 120 + (16 - sz) * 125),
   width |-> MathRound(2 * (sz * 125)),
   height |-> MathRound(2 * (sz * 125))]

\* Variant of processImageCrop: the output is resized to the 1000 pixels of
\* the 8k pipeline whatever the crop.
processImageCrop_final1000(dimension, sz) ==
  [cropParams |-> cropParams(sz), finalSize |-> 1000]

\* What processImage(screenshotBuffer, dimension, jobId, size) hands to
\* sharp: extract(cropParams) and resize(finalSize, finalSize).  The
\* dimension is only logged.
processImageCrop(dimension, sz) ==
  [cropParams |-> cropParams(sz), finalSize |-> cropParams(sz).width]

\* Variant of processImageCrop8k: the nether crop is taken for every
\* dimension.
processImageCrop8k_netherForAll(dimension) ==
  [cropParams |-> [left |-> 720, top |-> 120, width |-> 2000, height |-> 2000],
   finalSize |-> 1000]

\* What the processImage(screenshotBuffer, dimension, jobId) of the fixed
\* 8k screenshot.js hands to sharp: extract(cropParams) and
\* resize(finalSize, finalSize).
processImageCrop8k(dimension) ==
  IF dimension = NETHER
  THEN [cropParams |-> [left |-> 720, top |-> 120, width |-> 2000, height |-> 2000],
        finalSize |-> 1000]
  ELSE [cropParams |-> [left |-> 1220, top |-> 620, width |-> 1000, height |-> 1000],
        finalSize |-> 1000]

\* await page.setViewport({ width: 3840, height: 2160 }): the size of the
\* page the screenshot is taken of.
viewport == [width |-> 3840, height |-> 2160]

\* -------------------------------------------- screenshot.js: generateMap
\* The object generateMap(seed, dimension, jobId, size) resolves with:
\* generateMapResult with the size as passed.  outcome is "ok" or the
\* statement that threw.
generateMapReturn(seed, dimension, jobId, sz, outcome, t) ==
  IF outcome = "ok"
  THEN LET filename == <<ToStringChars(seed), dimension, sz, t>>
       IN [success |-> TRUE,
           jobId |-> jobId,
           status |-> "ready",
           imageUrl |-> <<"/generated-maps/", filename>>,
           filename |-> filename,
           metadata |-> [seed |-> seed, dimension |-> dimension, size |-> sz,
                         generatedAt |-> ToISOString(t),
                         fileSize |-> "KB",
                         dimensions |-> <<MathRound(2 * (sz * 125)), MathRound(2 * (sz * 125))>>]]
  ELSE [success |-> FALSE,
        jobId |-> jobId,
        status |-> "failed",
        error |-> "GENERATION_FAILED",
        message |-> <<"Failed to generate map: ", outcome>>,
        retryable |-> TRUE]

trackerVars == <<jobs, activeJobs, sessions, now, res, issued, admits, decs>>

\* The awaited statements of the try block, in program order.
Stages ==
  <<"launch", "newPage", "setViewport", "navigate", "handleCookieBanner",
    "toggleSidebar", "configureMarkers", "settle", "screenshot",
    "processImage", "saveImage">>

StageIndex(stage) == CHOOSE i \in 1..Len(Stages) : Stages[i] = stage

\* Variant of StageAfter: the screenshot is taken before the wait.
StageAfter_captureBeforeSettle(stage) ==
  CASE stage = "configureMarkers" -> "screenshot"
    [] stage = "screenshot" -> "settle"
    [] stage = "settle" -> "processImage"
    [] stage = "saveImage" -> "return"
    [] OTHER -> Stages[StageIndex(stage) + 1]

\* The statement control reaches when an awaited statement completes
\* normally.
StageAfter(stage) ==
  IF StageIndex(stage) = Len(Stages) THEN "return" ELSE Stages[StageIndex(stage) + 1]

\* handleCookieBanner, toggleSidebar, configureMarkers: the body is one
\* try block whose catch logs a warning, so the call completes normally
\* whether or not a click threw.
handleCookieBanner(clickThrows) == "normal"

toggleSidebar(clickThrows) == "normal"

\* Variant of configureMarkers: no try/catch around the clicks.
configureMarkers_noCatch(clickThrows) == IF clickThrows THEN "throw" ELSE "normal"

configureMarkers(clickThrows) == "normal"

BestEffortStages == {"handleCookieBanner", "toggleSidebar", "configureMarkers"}

\* The awaited statements of generateMap whose exception reaches its catch
\* block, other than launch and processImage.
FatalStages == {"newPage", "setViewport", "navigate", "screenshot", "saveImage"}

Completions == {"normal", "throw"}

\* The calls of generateMap that are enumerated: every dimension with every
\* supported size.
DimensionNames == {OVERWORLD, NETHER, END}

SizeInputs == MinSize..MaxSize

\* generateMap(seed, dimension, jobId, size) is called: the function runs
\* up to its first await.
CallGenerateMap(dimension, sz) ==
  /\ pc = "idle"
  /\ args' = [seed |-> JsString(<<"1", "2">>),
              dimension |-> dimension,
              jobId |-> generateJobId(JsString(<<"1", "2">>), dimension, now),
              size |-> sz]
  /\ pc' = "launch"
  /\ UNCHANGED <<browser, thrown, crop, resolved, ran, caught, closes>>
  /\ UNCHANGED trackerVars

\* An awaited statement of the try block settles: control goes on to the
\* next statement, or to the catch block with the error.
Settled(stage, completion) ==
  /\ pc = stage
  /\ ran' = Append(ran, stage)
  /\ IF completion = "normal"
     THEN pc' = StageAfter(stage) /\ thrown' = thrown
     ELSE pc' = "catch" /\ thrown' = stage

\* browser = await puppeteer.launch(...)
Launch(completion) ==
  /\ Settled("launch", completion)
  /\ browser' = IF completion = "normal" THEN "open" ELSE browser
  /\ UNCHANGED <<args, crop, resolved, caught, closes>>
  /\ UNCHANGED trackerVars

\* await browser.newPage(), page.setViewport, page.goto, page.screenshot,
\* saveImage
FatalStage(stage, completion) ==
  /\ Settled(stage, completion)
  /\ UNCHANGED <<args, browser, crop, resolved, caught, closes>>
  /\ UNCHANGED trackerVars

BestEffortCompletion(stage, clickThrows) ==
  CASE stage = "handleCookieBanner" -> handleCookieBanner(clickThrows)
    [] stage = "toggleSidebar" -> toggleSidebar(clickThrows)
    [] stage = "configureMarkers" -> configureMarkers(clickThrows)

\* await handleCookieBanner(page, jobId), toggleSidebar, configureMarkers
BestEffortStage(stage, clickThrows) ==
  /\ Settled(stage, BestEffortCompletion(stage, clickThrows))
  /\ caught' = IF clickThrows THEN caught \cup {stage} ELSE caught
  /\ UNCHANGED <<args, browser, crop, resolved, closes>>
  /\ UNCHANGED trackerVars

\* await new Promise(resolve => setTimeout(resolve, 10000))
Settle ==
  /\ Settled("settle", "normal")
  /\ UNCHANGED <<args, browser, crop, resolved, caught, closes>>
  /\ UNCHANGED trackerVars

\* await processImage(screenshotBuffer, dimension, jobId, size): the crop
\* is computed, then sharp returns the buffer or throws and processImage
\* rethrows.
ProcessImage(completion) ==
  /\ Settled("processImage", completion)
  /\ crop' = processImageCrop(args.dimension, args.size)
  /\ UNCHANGED <<args, browser, resolved, caught, closes>>
  /\ UNCHANGED trackerVars

\* return {success: true, ...}
Return ==
  /\ pc = "return"
  /\ resolved' = generateMapReturn(args.seed, args.dimension, args.jobId, args.size, "ok", now)
  /\ pc' = "finally"
  /\ UNCHANGED <<args, browser, thrown, crop, ran, caught, closes>>
  /\ UNCHANGED trackerVars

\* Variant of Catch: the catch block logs and rethrows, so the promise
\* rejects with the error.
Catch_rethrow ==
  /\ pc = "catch"
  /\ resolved' = [rejected |-> thrown]
  /\ pc' = "finally"
  /\ UNCHANGED <<args, browser, thrown, crop, ran, caught, closes>>
  /\ UNCHANGED trackerVars

\* catch (error) { ...; return {success: false, ...} }
Catch ==
  /\ pc = "catch"
  /\ resolved' = generateMapReturn(args.seed, args.dimension, args.jobId, args.size, thrown, now)
  /\ pc' = "finally"
  /\ UNCHANGED <<args, browser, thrown, crop, ran, caught, closes>>
  /\ UNCHANGED trackerVars

\* Variant of FinallyValue: browser.close() is awaited without a try block,
\* so its error replaces the value being returned.
FinallyValue_unguarded(value, closeThrows) ==
  IF closeThrows THEN [rejected |-> "close"] ELSE value

\* The value the promise settles with once the finally block has run:
\* browser.close() is inside its own try/catch, which only logs.
FinallyValue(value, closeThrows) == value

\* Variant of Finally: the browser is closed only when no statement threw.
Finally_closeOnSuccess(closeThrows) ==
  /\ pc = "finally"
  /\ IF browser # "undefined" /\ thrown = ""
     THEN /\ closes' = closes + 1
          /\ ran' = Append(ran, "close")
          /\ browser' = IF closeThrows THEN "closeFailed" ELSE "closed"
          /\ resolved' = FinallyValue(resolved, closeThrows)
     ELSE UNCHANGED <<closes, ran, browser, resolved>>
  /\ pc' = "done"
  /\ UNCHANGED <<args, thrown, crop, caught>>
  /\ UNCHANGED trackerVars

\* finally { if (browser) { try { await browser.close() } catch { } } }
Finally(closeThrows) ==
  /\ pc = "finally"
  /\ IF browser # "undefined"
     THEN /\ closes' = closes + 1
          /\ ran' = Append(ran, "close")
          /\ browser' = IF closeThrows THEN "closeFailed" ELSE "closed"
          /\ resolved' = FinallyValue(resolved, closeThrows)
     ELSE UNCHANGED <<closes, ran, browser, resolved>>
  /\ pc' = "done"
  /\ UNCHANGED <<args, thrown, crop, caught>>
  /\ UNCHANGED trackerVars

NextRender ==
  \/ \E dimension \in DimensionNames, sz \in SizeInputs : CallGenerateMap(dimension, sz)
  \/ \E completion \in Completions : Launch(completion)
  \/ \E stage \in FatalStages, completion \in Completions : FatalStage(stage, completion)
  \/ \E stage \in BestEffortStages, clickThrows \in BOOLEAN : BestEffortStage(stage, clickThrows)
  \/ Settle
  \/ \E completion \in Completions : ProcessImage(completion)
  \/ Return
  \/ Catch
  \/ \E closeThrows \in BOOLEAN : Finally(closeThrows)

SpecRender == Init /\ [][NextRender]_vars

\* ------------------------------------------------- one job, end to end
\* .catch(error => ...): the handler runs to its end on the error the
\* promise of session s rejected with.
CatchTracker(s, message) ==
  /\ BagIn(s, sessions)
  /\ jobs' = MapSet(jobs, s.jobId, CatchRecord(jobs, s.jobId, message, now))
  /\ activeJobs' = Decrement(activeJobs)
  /\ decs' = decs + 1
  /\ sessions' = sessions (-) SetToBag({s})
  /\ UNCHANGED <<now, res, issued, admits>>

\* The arguments of generateMap(seed, normalizedDimension, jobId) as the
\* handler calls it: no size is passed, so the parameter takes its default.
generateMapCallArgs(seed, normalizedDimension, jobId) ==
  [seed |-> seed, dimension |-> normalizedDimension, jobId |-> jobId, size |-> size]

\* app.post('/api/generate') with the call of generateMap it makes followed
\* in the render variables; one call is followed, so the request is made
\* while none has started.
PostGenerateJob(body) ==
  /\ pc = "idle"
  /\ SubmitTracker(body.seed, body.dimension)
  /\ IF admits' = admits + 1
     THEN /\ args' = generateMapCallArgs(body.seed,
                                          jobs'[res'["jobId"]]["dimension"],
                                          res'["jobId"])
          /\ pc' = "launch"
          /\ UNCHANGED <<browser, thrown, crop, resolved, ran, caught, closes>>
     ELSE UNCHANGED renderVars

\* Variant of PromiseSettled: the promise settles when the return statement
\* runs, before the finally block.
PromiseSettled_atReturn(p) == p \in {"finally", "done"}

\* The promise of an async function settles when the function has ended,
\* its finally block included.
PromiseSettled(p) == p = "done"

\* The promise of the followed call settles and the completion chain
\* .then(...).catch(...) runs on it.
SessionSettles ==
  /\ PromiseSettled(pc)
  /\ LET s == [seed |-> args.seed, dimension |-> args.dimension, jobId |-> args.jobId]
     IN IF "rejected" \in DOMAIN resolved
        THEN CatchTracker(s, resolved["rejected"])
        ELSE ThenTracker(s, resolved)
  /\ pc' = "settled"
  /\ UNCHANGED <<args, browser, thrown, crop, resolved, ran, caught, closes>>

NextJob ==
  \/ \E body \in Bodies : PostGenerateJob(body)
  \/ \E completion \in Completions : Launch(completion)
  \/ \E stage \in FatalStages, completion \in Completions : FatalStage(stage, completion)
  \/ \E stage \in BestEffortStages, clickThrows \in BOOLEAN : BestEffortStage(stage, clickThrows)
  \/ Settle
  \/ \E completion \in Completions : ProcessImage(completion)
  \/ Return
  \/ Catch
  \/ \E closeThrows \in BOOLEAN : Finally(closeThrows)
  \/ SessionSettles
  \/ \E jobId \in QueryIds, file \in FileOutcomes : StatusQuery(jobId, file)
  \/ Cleanup
  \/ \E t \in ClockReadings : Tick(t)

SpecJob == Init /\ [][NextJob]_vars

\* ------------------------------------------------------- seeds of any type
JsObject == [type |-> "object", chars |-> <<>>, num |-> 0, special |-> "object"]

\* The seed fields of the request bodies that are enumerated for the seed
\* validation: strings (with text, blank, empty), numbers (finite, NaN,
\* infinite: JSON 1e999 parses to Infinity), null, absent, an object, a
\* boolean.
SeedValues ==
  {JsString(<<"1", "2">>), JsString(<<" ", "7", " ">>), JsString(<<" ", "\t">>), JsString(<<>>),
   JsNumber(5), JsNaN, JsInfinity, JsNull, JsUndefined, JsObject, JsTrue}

\* The generateMap calls the submissions with these seeds can start.
SeedSessionKinds ==
  {[seed |-> seed, dimension |-> OVERWORLD, jobId |-> generateJobId(seed, OVERWORLD, 0)] :
     seed \in {x \in SeedValues : isValidSeed(x)}}

NextSeeds ==
  \/ \E seedIn \in SeedValues : Submit(seedIn, JsUndefined)
  \/ \E s \in SeedSessionKinds : ThenHandler(s, "ok")

SpecSeeds == Init /\ [][NextSeeds]_vars

\* ------------------------------------------------- utils.js: isValidSize
\* A finite number that String() does not print as a plain run of digits
\* (a fraction, or a magnitude printed with an exponent): cs is the text
\* String() gives for it.
JsNumberText(cs) == [type |-> "number", chars |-> cs, num |-> 0, special |-> "text"]

\* String(v), the conversion parseInt applies to its argument.
StringOf(v) ==
  CASE v.type = "number" /\ v.special = "text" -> v.chars
    [] v.type = "number" /\ v.special = "" /\ v.num < 0 -> <<"-">> \o NatToChars(0 - v.num)
    [] v = JsObject -> <<"[", "o", "b", "j", "e", "c", "t", " ", "O", "b", "j", "e", "c", "t", "]">>
    [] OTHER -> ToStringChars(v)

HexDigitChars == <<"0", "1", "2", "3", "4", "5", "6", "7", "8", "9",
                   "a", "b", "c", "d", "e", "f">>

\* The value of c as a digit of the radix, -1 when it is none.
DigitValue(c, radix) ==
  IF \E i \in 1..radix : HexDigitChars[i] = LowerChar(c)
  THEN (CHOOSE i \in 1..radix : HexDigitChars[i] = LowerChar(c)) - 1
  ELSE 0 - 1

\* The longest prefix of cs made of digits of the radix, as a number; NaN
\* when that prefix is empty.
RECURSIVE ParseDigits(_, _, _, _)
ParseDigits(cs, radix, acc, seen) ==
  IF cs # <<>> /\ DigitValue(Head(cs), radix) >= 0
  THEN ParseDigits(Tail(cs), radix, acc * radix + DigitValue(Head(cs), radix), TRUE)
  ELSE [nan |-> ~seen, num |-> acc]

\* parseInt(string) with no radix: leading white space is skipped, a sign
\* is read, a 0x prefix selects radix 16, and whatever follows the digits
\* is ignored.
parseInt(cs) ==
  LET S == TrimStart(cs)
      negative == S # <<>> /\ Head(S) = "-"
      unsigned == IF S # <<>> /\ Head(S) \in {"+", "-"} THEN Tail(S) ELSE S
      hex == Len(unsigned) >= 2 /\ unsigned[1] = "0" /\ unsigned[2] \in {"x", "X"}
      digits == IF hex THEN SubSeq(unsigned, 3, Len(unsigned)) ELSE unsigned
      parsed == ParseDigits(digits, IF hex THEN 16 ELSE 10, 0, FALSE)
  IN [nan |-> parsed.nan, num |-> IF negative THEN 0 - parsed.num ELSE parsed.num]

isValidSize(sz) ==
  LET numSize == parseInt(StringOf(sz))
  IN ~numSize.nan /\ numSize.num >= MinSize /\ numSize.num <= MaxSize

\* The arguments isValidSize is applied to: every string of at most
\* MaxSizeChars characters of SizeAlphabet, the integers around the range,
\* fractions, a magnitude printed with an exponent, NaN, Infinity, and the
\* values that are neither a number nor a string.
MaxSizeChars == 3

SizeAlphabet == {"0", "1", "2", "6", "x", ".", " ", "-"}

SizeStrings == UNION {[1..n -> SizeAlphabet] : n \in 0..MaxSizeChars}

SizeValues ==
  {JsString(cs) : cs \in SizeStrings}
    \cup {JsNumber(n) : n \in (0 - 2)..(MaxSize + 4)}
    \cup {JsNumberText(<<"2", ".", "5">>), JsNumberText(<<"1", "6", ".", "9">>),
          JsNumberText(<<"1", ".", "5">>), JsNumberText(<<"2", "e", "+", "2", "1">>),
          JsNaN, JsInfinity, JsUndefined, JsNull, JsTrue, JsObject}

\* A call isValidSize(sz) of the exported function (no handler of
\* server.js calls it): args holds the argument, resolved the value
\* returned.
CallIsValidSize(sz) ==
  /\ pc = "idle"
  /\ args' = [size |-> sz]
  /\ resolved' = [value |-> isValidSize(sz)]
  /\ UNCHANGED <<pc, browser, thrown, crop, ran, caught, closes>>
  /\ UNCHANGED trackerVars

NextSizes == \E sz \in SizeValues : CallIsValidSize(sz)

SpecSizes == Init /\ [][NextSizes]_vars

\* ----------------------------------------------- dimensions of any case
\* The dimension fields of the request bodies that are enumerated for the
\* normalisation: absent, the three dimensions in mixed, upper and
\* capitalised case, an unknown name, a name followed by a blank, the
\* empty string, null and a number.
DimensionValues ==
  {JsUndefined,
   JsString(<<"O", "v", "e", "r", "W", "o", "r", "l", "d">>),
   JsString(<<"N", "E", "T", "H", "E", "R">>),
   JsString(<<"E", "n", "d">>),
   JsString(<<"m", "o", "o", "n">>),
   JsString(<<"e", "n", "d", " ">>),
   JsString(<<>>), JsNull, JsNumber(5)}

\* The generateMap calls the submissions with these dimensions can start.
DimensionSessionKinds ==
  {[seed |-> JsString(<<"1", "2">>), dimension |-> validDimensions[i],
    jobId |-> generateJobId(JsString(<<"1", "2">>), validDimensions[i], 0)] :
     i \in 1..Len(validDimensions)}

NextDimensions ==
  \/ \E dimensionIn \in DimensionValues : Submit(JsString(<<"1", "2">>), dimensionIn)
  \/ \E s \in DimensionSessionKinds, outcome \in Outcomes : ThenHandler(s, outcome)

SpecDimensions == Init /\ [][NextDimensions]_vars

\* ------------------------------------------------- vocabulary of the claims
\* Valid input as the specification words it: a seed is a non-empty string
\* or a finite number; a dimension is absent or names one of the three
\* dimensions in any letter case.
SpecValidSeed(v) ==
  \/ v.type = "string" /\ \E i \in 1..Len(v.chars) : ~IsWhitespace(v.chars[i])
  \/ v.type = "number" /\ v.special = ""

SpecValidDimension(v) ==
  \/ v = JsUndefined
  \/ v.type = "string" /\ ToLowerCase(v.chars) \in {OVERWORLD, NETHER, END}

ValidInput(seed, dimension) == SpecValidSeed(seed) /\ SpecValidDimension(dimension)

IsError(r, code, error) == r["code"] = code /\ "error" \in DOMAIN r /\ r["error"] = error

IsAccepted(r) == r["code"] = 200 /\ "estimatedTime" \in DOMAIN r

C2_RejectedAtCeiling ==
  [][\A seed \in SeedInputs, dimension \in DimensionInputs :
       (/\ ValidInput(seed, dimension)
        /\ activeJobs = MAX_CONCURRENT_JOBS
        /\ Submit(seed, dimension))
       => (/\ IsError(res', 429, "TOO_MANY_JOBS")
           /\ UNCHANGED <<jobs, activeJobs, sessions, issued>>)]_vars

\* A submission has been rejected at the ceiling, with every slot taken by
\* a pending session.
C2_Witness ==
  /\ IsError(res, 429, "TOO_MANY_JOBS")
  /\ activeJobs = MAX_CONCURRENT_JOBS
  /\ InFlight = MAX_CONCURRENT_JOBS

\* ------------------------------------------------------------------ C3
\* C3: a valid submission is admitted exactly when fewer than the ceiling
\* of jobs are in flight, and then takes one slot; at the ceiling it is
\* rejected; a job reaching its terminal state frees exactly one slot, so
\* that one further submission is admitted before rejections resume.
C3_AdmitUpToCeiling ==
  [][/\ \A seed \in SeedInputs, dimension \in DimensionInputs :
          (ValidInput(seed, dimension) /\ Submit(seed, dimension))
          => IF InFlight >= MAX_CONCURRENT_JOBS
             THEN IsError(res', 429, "TOO_MANY_JOBS") /\ InFlight' = InFlight
             ELSE IsAccepted(res') /\ InFlight' = InFlight + 1
     /\ \A s \in BagToSet(sessions), outcome \in Outcomes :
          ThenHandler(s, outcome)
          => (/\ InFlight' = InFlight - 1
              /\ IsTerminal(jobs'[s.jobId])
              /\ ~AtCeiling(activeJobs'))]_vars

\* The ceiling was reached, one job completed, one more submission was
\* admitted and the next one was rejected.
C3_Witness ==
  /\ IsError(res, 429, "TOO_MANY_JOBS")
  /\ admits = MAX_CONCURRENT_JOBS + 1
  /\ decs = 1
  /\ InFlight = MAX_CONCURRENT_JOBS

\* ------------------------------------------------------------------ C4
\* C4: the counter is decremented exactly once for every admission, at the
\* step in which that job's completion chain runs: a step that settles one
\* pending session lowers activeJobs by one, a step that admits one raises
\* it by one, and no other step changes it.
C4_OneDecrementPerAdmission ==
  [][/\ (InFlight' = InFlight - 1) => (activeJobs' = activeJobs - 1)
     /\ (InFlight' = InFlight + 1) => (activeJobs' = activeJobs + 1)
     /\ (InFlight' = InFlight) => (activeJobs' = activeJobs)]_vars

\* ------------------------------------------------------------------ C5
\* C5: once the record of a job id is ready or failed, no step changes its
\* status (the record may only be removed).
C5_StatusMonotonic ==
  [][\A jobId \in DOMAIN jobs :
       (IsTerminal(jobs[jobId]) /\ jobId \in DOMAIN jobs')
       => jobs'[jobId]["status"] = jobs[jobId]["status"]]_vars

\* ------------------------------------------------------------------ C6
\* C6: a completion applied to a job id whose record is already terminal
\* leaves the record as the first completion set it and does not decrement
\* the counter.
C6_CompletionIdempotent ==
  [][\A s \in BagToSet(sessions), outcome \in Outcomes :
       (/\ s.jobId \in DOMAIN jobs
        /\ IsTerminal(jobs[s.jobId])
        /\ ThenHandler(s, outcome))
       => (/\ jobs'[s.jobId] = jobs[s.jobId]
           /\ activeJobs' = activeJobs)]_vars

\* ------------------------------------------------------------------ C7
\* C7: when every pending generateMap call eventually settles, every
\* admission is eventually matched by a release of its counter slot, and
\* the record of every pending job is eventually ready or failed.
C7_EveryJobTerminates ==
  /\ \A n \in 1..MaxAdmits : (admits >= n) ~> (decs >= n)
  /\ \A s \in SessionKinds :
       BagIn(s, sessions) ~> (s.jobId \in DOMAIN jobs /\ IsTerminal(jobs[s.jobId]))

\* Jobs were admitted up to the ceiling and beyond it, and all of them have
\* completed.
C7_Witness ==
  /\ admits = MAX_CONCURRENT_JOBS + 1
  /\ decs = admits
  /\ InFlight = 0
  /\ \E jobId \in DOMAIN jobs : IsTerminal(jobs[jobId])

\* ------------------------------------------------------------------ C8
\* C8: every accepted submission receives a job id that no earlier
\* accepted submission received.
C8_DistinctJobIds ==
  [][\A seed \in SeedInputs, dimension \in DimensionInputs :
       (Submit(seed, dimension) /\ admits' = admits + 1)
       => res'["jobId"] \notin issued]_vars

\* ------------------------------------------------------------------ C9
\* C9: a status query for an id that no accepted submission returned is
\* answered 404 JOB_NOT_FOUND; and when a submission is accepted, at the
\* response the record of the returned id exists with status processing
\* and its render session is still pending.
C9_NotFoundThenProcessing ==
  [][/\ \A jobId \in QueryIds, file \in FileOutcomes :
          (jobId \notin issued /\ StatusQuery(jobId, file))
          => IsError(res', 404, "JOB_NOT_FOUND")
     /\ \A seed \in SeedInputs, dimension \in DimensionInputs :
          (Submit(seed, dimension) /\ admits' = admits + 1)
          => (/\ IsAccepted(res')
              /\ res'["status"] = "processing"
              /\ res'["jobId"] \in DOMAIN jobs'
              /\ jobs'[res'["jobId"]]["status"] = "processing"
              /\ \E s \in BagToSet(sessions') :
                   /\ s.jobId = res'["jobId"]
                   /\ CopiesIn(s, sessions') = CopiesIn(s, sessions) + 1)]_vars

\* An unknown id was answered 404 while an issued job is in processing.
C9_Witness ==
  /\ IsError(res, 404, "JOB_NOT_FOUND")
  /\ \E jobId \in issued : jobId \in DOMAIN jobs /\ jobs[jobId]["status"] = "processing"

\* ----------------------------------------------------------------- C10
\* C10: a submission whose seed or dimension is invalid is answered with a
\* caller error (400 INVALID_SEED or INVALID_DIMENSION) and changes neither
\* the job map, nor the counter, nor the set of render sessions.
C10_InvalidInputRejected ==
  [][\A seed \in SeedInputs, dimension \in DimensionInputs :
       (~ValidInput(seed, dimension) /\ Submit(seed, dimension))
       => (/\ res'["code"] = 400
           /\ res'["error"] \in {"INVALID_SEED", "INVALID_DIMENSION"}
           /\ UNCHANGED <<jobs, activeJobs, sessions, issued>>)]_vars

\* ----------------------------------------------------------------- C11
\* A world size as the specification words it: an integer of the supported
\* range.
SpecValidSize(v) ==
  v.type = "number" /\ v.special = "" /\ MinSize <= v.num /\ v.num <= MaxSize

\* C11: a submission that carries a world size outside the supported range
\* is answered with a caller error (400) and changes neither the job map,
\* nor the counter, nor the set of render sessions.
C11_SizeOutOfRangeRejected ==
  [][\A body \in Bodies :
       (/\ body.size # JsUndefined
        /\ ~SpecValidSize(body.size)
        /\ PostGenerate(body))
       => (/\ res'["code"] = 400
           /\ UNCHANGED <<jobs, activeJobs, sessions, issued>>)]_vars

\* ----------------------------------------------------------------- C12
\* o.k === true
IsTrue(o, k) == k \in DOMAIN o /\ ToString(o[k]) = "TRUE"

\* C12: every job record with status failed carries a failure reason and
\* retryable = true, and so does every status response that reports the
\* status failed.
C12_FailedIsRetryable ==
  /\ \A jobId \in DOMAIN jobs :
       Field(jobs[jobId], "status") = "failed"
       => (/\ "message" \in DOMAIN jobs[jobId]
           /\ IsTrue(jobs[jobId], "retryable"))
  /\ (res["code"] = 200 /\ Field(res, "status") = "failed")
     => (/\ ToString(res["message"]) # ToString("undefined")
         /\ IsTrue(res, "retryable"))

\* ----------------------------------------------------------------- C13
\* The statements of the call that have run.
HasRun(stage) == \E i \in 1..Len(ran) : ran[i] = stage

\* C13: no error of handleCookieBanner, toggleSidebar or configureMarkers
\* reaches the catch block of generateMap; whichever of the three threw
\* inside, a call that got past navigation runs all three, then the wait
\* and the screenshot, and resolves with the object that depends only on
\* the statement outside the three that threw, if any.
C13_BestEffortNeverFails ==
  /\ thrown \notin BestEffortStages
  /\ (pc = "done" /\ HasRun("handleCookieBanner"))
     => (/\ \A stage \in BestEffortStages \cup {"settle", "screenshot"} : HasRun(stage)
         /\ thrown \in {"", "screenshot", "processImage", "saveImage"}
         /\ resolved = generateMapReturn(args.seed, args.dimension, args.jobId, args.size,
                                         IF thrown = "" THEN "ok" ELSE thrown, now))

\* All three best-effort functions threw inside and the job is ready.
C13_Witness ==
  /\ pc = "done"
  /\ caught = BestEffortStages
  /\ Field(resolved, "status") = "ready"

\* ----------------------------------------------------------------- C14
\* C14: browser.close() is never called more than once and never without a
\* launched browser, and a call that has ended with a launched browser has
\* called it exactly once, whichever statement threw.
C14_BrowserClosedOnce ==
  /\ closes <= 1
  /\ (browser = "undefined") => (closes = 0)
  /\ (pc = "done" /\ browser # "undefined") => (closes = 1)

\* Navigation threw after the launch and the browser was closed once.
C14_Witness ==
  /\ pc = "done"
  /\ thrown = "navigate"
  /\ closes = 1
  /\ browser = "closed"

\* ----------------------------------------------------------------- C15
\* C15: a browser.close() that throws leaves the value the call resolves
\* with as the try or the catch block returned it: ready when no statement
\* threw, failed with the message of the statement that threw otherwise.
C15_TeardownFailureSwallowed ==
  [][(Finally(TRUE) /\ browser # "undefined")
     => (/\ resolved' = resolved
         /\ IF thrown = ""
            THEN Field(resolved', "status") = "ready"
            ELSE /\ Field(resolved', "status") = "failed"
                 /\ Field(resolved', "message") = <<"Failed to generate map: ", thrown>>)]_vars

\* The close of a ready job's browser threw and the job is still ready.
C15_Witness ==
  /\ pc = "done"
  /\ browser = "closeFailed"
  /\ closes = 1
  /\ Field(resolved, "status") = "ready"

\* ----------------------------------------------------------------- C16
\* The stages as the specification names them, in its order, and the stage
\* each awaited statement belongs to.
ClaimStages ==
  <<"launch", "navigate", "dismiss overlay", "adjust view", "enable markers",
    "settle", "capture", "process/store", "teardown">>

StageRank(statement) ==
  CASE statement \in {"launch", "newPage"} -> 1
    [] statement \in {"setViewport", "navigate"} -> 2
    [] statement = "handleCookieBanner" -> 3
    [] statement = "toggleSidebar" -> 4
    [] statement = "configureMarkers" -> 5
    [] statement = "settle" -> 6
    [] statement = "screenshot" -> 7
    [] statement \in {"processImage", "saveImage"} -> 8
    [] statement = "close" -> Len(ClaimStages)

\* C16: the statements of one call run in the order launch, navigate,
\* dismiss overlay, adjust view, enable markers, settle, capture,
\* process/store, teardown: the first belongs to launch, each next one to
\* the same stage or the following one (none is passed over), teardown may
\* follow any stage once the browser is launched and nothing follows it;
\* so the screenshot is never taken before the wait has run.
C16_StagesInOrder ==
  /\ ran # <<>> => StageRank(ran[1]) = 1
  /\ \A i \in 1..(Len(ran) - 1) :
       /\ StageRank(ran[i]) # Len(ClaimStages)
       /\ \/ StageRank(ran[i + 1]) \in {StageRank(ran[i]), StageRank(ran[i]) + 1}
          \/ StageRank(ran[i + 1]) = Len(ClaimStages)
  /\ HasRun("screenshot") => (HasRun("settle") /\ pc # "settle")

\* Every stage has run, teardown last.
C16_Witness ==
  /\ pc = "done"
  /\ Len(ran) = Len(Stages) + 1
  /\ ran[Len(ran)] = "close"

\* ----------------------------------------------------------------- C17
\* processImage has computed the crop of the call.
Cropped == crop # NoObject

\* C17: for overworld and end and every size s of 2..16 the crop handed to
\* sharp has left = round(720 + (16 - s) * 62.5) and top = round(120 +
\* (16 - s) * 62.5), a half rounded up (stated on the doubled values), and
\* width = height = output size = s * 125; at s = 16 it is (720, 120, 2000,
\* 2000) and at s = 2 it is (1595, 995, 250, 250).
C17_CropFormula ==
  (Cropped /\ args.dimension \in {OVERWORLD, END})
  => LET c == crop.cropParams
         s == args.size
     IN /\ 2 * c.left - 1 <= 1440 + (16 - s) * 125
        /\ 1440 + (16 - s) * 125 <= 2 * c.left
        /\ 2 * c.top - 1 <= 240 + (16 - s) * 125
        /\ 240 + (16 - s) * 125 <= 2 * c.top
        /\ c.width = s * 125
        /\ c.height = s * 125
        /\ crop.finalSize = s * 125
        /\ (s = 16) => (c = [left |-> 720, top |-> 120, width |-> 2000, height |-> 2000])
        /\ (s = 2) => (c = [left |-> 1595, top |-> 995, width |-> 250, height |-> 250])

\* The crop of the smallest size was computed for the end.
C17_Witness ==
  /\ Cropped
  /\ args.dimension = END
  /\ args.size = MinSize
  /\ crop.cropParams.left = 1595

\* ----------------------------------------------------------------- C18
\* C18: for the nether the crop handed to sharp and the output size are
\* the ones every other supported size gets.
C18_NetherIndependentOfSize ==
  (Cropped /\ args.dimension = NETHER)
  => \A sz \in SizeInputs : processImageCrop(NETHER, sz) = crop

C20_FixedCentre ==
  (Cropped /\ args.dimension \in {OVERWORLD, END})
  => (/\ 2 * crop.cropParams.left + crop.cropParams.width = 3440
      /\ 2 * crop.cropParams.top + crop.cropParams.height = 2240)

\* C20 as amended: for overworld and end and every size s of 2..16 the
\* centre of the crop is the anchor (1720, 1120) when s is even and half a
\* pixel right of and below it when s is odd: 2 * left + width = 3440 +
\* (s mod 2) and 2 * top + height = 2240 + (s mod 2).
C20_CentreWithinHalfPixel ==
  (Cropped /\ args.dimension \in {OVERWORLD, END})
  => (/\ 2 * crop.cropParams.left + crop.cropParams.width = 3440 + (args.size % 2)
      /\ 2 * crop.cropParams.top + crop.cropParams.height = 2240 + (args.size % 2))

\* The crop of an odd size was computed for the overworld: its centre is
\* half a pixel off the anchor.
C20_Witness ==
  /\ Cropped
  /\ args.dimension = OVERWORLD
  /\ args.size = 15
  /\ 2 * crop.cropParams.left + crop.cropParams.width = 3441

\* ----------------------------------------------------------------- C21
\* The record of the followed job.
FollowedJob == jobs[args.jobId]

\* C21: when a submission with a supported world size s is admitted, the
\* render call it starts uses the size s; and when that call resolves
\* without a throw, the job's record becomes ready with an image location
\* and a side of round(size * 125) pixels for the size of the call.
C21_RequestedSizeRendered ==
  [][/\ \A body \in Bodies :
          (/\ SpecValidSize(body.size)
           /\ PostGenerateJob(body)
           /\ admits' = admits + 1)
          => args'.size = body.size.num
     /\ (SessionSettles /\ thrown = "")
        => (/\ Field(jobs'[args.jobId], "status") = "ready"
            /\ "imageUrl" \in DOMAIN jobs'[args.jobId]
            /\ jobs'[args.jobId]["metadata"]["dimensions"]
                 = <<args.size * 125, args.size * 125>>)]_vars

\* ----------------------------------------------------------------- C22
\* C22: every job record has completedAt exactly when its status is ready
\* or failed, imageUrl only when its status is ready, and error, message
\* and retryable only when its status is failed.
C22_RecordFieldConsistent ==
  \A jobId \in DOMAIN jobs :
    LET job == jobs[jobId]
    IN /\ ("completedAt" \in DOMAIN job) <=> IsTerminal(job)
       /\ ("imageUrl" \in DOMAIN job) => (Field(job, "status") = "ready")
       /\ ({"error", "message", "retryable"} \cap DOMAIN job # {})
          => (Field(job, "status") = "failed")

\* ----------------------------------------------------------------- C23
\* C23: a status query leaves the set of job ids, the status of every job
\* and the counter as they are; for an id without a record it answers 404
\* JOB_NOT_FOUND and for an id with a record it answers 200 with that
\* record's status.
C23_StatusQueryFrame ==
  [][\A jobId \in QueryIds, file \in FileOutcomes :
       StatusQuery(jobId, file)
       => (/\ DOMAIN jobs' = DOMAIN jobs
           /\ \A j \in DOMAIN jobs : Field(jobs'[j], "status") = Field(jobs[j], "status")
           /\ activeJobs' = activeJobs
           /\ sessions' = sessions
           /\ IF jobId \in DOMAIN jobs
              THEN /\ res'["code"] = 200
                   /\ res'["jobId"] = jobId
                   /\ res'["status"] = Field(jobs[jobId], "status")
              ELSE IsError(res', 404, "JOB_NOT_FOUND"))]_vars

\* A query has answered ready for a job and has written the file's stats
\* into the record's metadata, while another job is in flight.
C23_Witness ==
  /\ res["code"] = 200
  /\ Field(res, "status") = "ready"
  /\ \E jobId \in DOMAIN jobs :
       /\ Field(jobs[jobId], "status") = "ready"
       /\ "created" \in DOMAIN jobs[jobId]["metadata"]
  /\ InFlight >= 1

\* ----------------------------------------------------------------- C24
\* C24: a submission is answered 400 INVALID_SEED exactly when its seed is
\* not a string with a character other than whitespace and not a finite
\* number: blank and empty strings, NaN, infinite numbers, null, absent
\* seeds, objects and booleans are rejected, every other seed passes the
\* seed validation.
C24_SeedValidationExact ==
  [][\A seed \in SeedValues :
       Submit(seed, JsUndefined)
       => (IsError(res', 400, "INVALID_SEED") <=> ~SpecValidSeed(seed))]_vars

\* ----------------------------------------------------------------- C25
\* C25: whichever statement of generateMap threw (launch, navigation,
\* screenshot, processImage, saveImage, browser.close), its promise does
\* not reject: it resolves with status ready when no statement of the try
\* block threw and failed otherwise, and the completion chain stores that
\* status, with the message of the statement that threw, on the job and
\* releases its slot.
C25_NoExceptionEscapes ==
  [][SessionSettles
     => (/\ "rejected" \notin DOMAIN resolved
         /\ Field(resolved, "status") = (IF thrown = "" THEN "ready" ELSE "failed")
         /\ Field(jobs'[args.jobId], "status") = Field(resolved, "status")
         /\ (thrown # "") => (jobs'[args.jobId]["message"] = <<"Failed to generate map: ", thrown>>)
         /\ activeJobs' = activeJobs - 1)]_vars

\* processImage threw, closing the browser threw as well, and the job is
\* recorded failed.
C25_Witness ==
  /\ pc = "settled"
  /\ thrown = "processImage"
  /\ browser = "closeFailed"
  /\ args.jobId \in DOMAIN jobs
  /\ Field(jobs[args.jobId], "status") = "failed"
  /\ activeJobs = 0

\* ----------------------------------------------------------------- C26
\* C26: a job record disappears only in a cleanup step; a cleanup step
\* removes only records that are ready or failed and were created more
\* than 24 hours before, leaves every other record and the counter as
\* they are; and every job in flight has a record under its id.
C26_OnlyCleanupRemoves ==
  [][/\ (\E jobId \in DOMAIN jobs : jobId \notin DOMAIN jobs') => Cleanup
     /\ Cleanup
        => (/\ \A jobId \in DOMAIN jobs :
                 IF jobId \in DOMAIN jobs'
                 THEN jobs'[jobId] = jobs[jobId]
                 ELSE /\ IsTerminal(jobs[jobId])
                      /\ now - DateGetTime(jobs[jobId]["createdAt"]) > 24 * 60 * 60 * 1000
            /\ DOMAIN jobs' \subseteq DOMAIN jobs
            /\ activeJobs' = activeJobs
            /\ sessions' = sessions)
     /\ \A s \in BagToSet(sessions') : s.jobId \in DOMAIN jobs']_vars

\* ----------------------------------------------------------------- C27
\* The job map after the completion of session s with the given outcome.
JobsAfter(m, s, outcome) ==
  MapSet(m, s.jobId, ThenRecord(m, s.jobId, generateMapResult(s.seed, s.dimension, s.jobId, outcome, now), now))

\* Two of the jobs in flight: two different sessions, or two copies of one.
TwoInFlight(s1, s2) ==
  /\ BagIn(s1, sessions)
  /\ BagIn(s2, sessions)
  /\ (s1 = s2) => (CopiesIn(s1, sessions) >= 2)

\* C27: a completion changes only the record of its own job id and lowers
\* the counter by one; and for any two jobs in flight and any outcomes,
\* completing the one and then the other leaves the same job map as
\* completing them in the other order.
C27_CompletionOrderIrrelevant ==
  [][/\ \A s \in BagToSet(sessions), outcome \in Outcomes :
          ThenHandler(s, outcome)
          => (/\ \A jobId \in DOMAIN jobs \ {s.jobId} :
                   jobId \in DOMAIN jobs' /\ jobs'[jobId] = jobs[jobId]
              /\ DOMAIN jobs' = DOMAIN jobs \cup {s.jobId}
              /\ activeJobs' = activeJobs - 1)
     /\ \A s1, s2 \in BagToSet(sessions'), o1, o2 \in Outcomes :
          TwoInFlight(s1, s2)'
          => (JobsAfter(JobsAfter(jobs', s1, o1), s2, o2)
                = JobsAfter(JobsAfter(jobs', s2, o2), s1, o1))]_vars

\* ----------------------------------------------------------------- C28
\* The figures of GET /api/stats that C28 compares.
ProcessingJobs ==
  Cardinality({jobId \in DOMAIN jobs : jobs[jobId]["status"] = "processing"})

CompletedJobs ==
  Cardinality({jobId \in DOMAIN jobs : jobs[jobId]["status"] = "ready"})

FailedJobs ==
  Cardinality({jobId \in DOMAIN jobs : jobs[jobId]["status"] = "failed"})

\* C28: in every reachable state activeJobs equals the number of job
\* records whose status is processing, and the number of records is the
\* sum of the ready, the failed and the processing ones.
C28_CounterMatchesProcessing ==
  /\ activeJobs = ProcessingJobs
  /\ Cardinality(DOMAIN jobs) = CompletedJobs + FailedJobs + ProcessingJobs

\* ----------------------------------------------------------------- C29
\* The browsers that were launched and on which browser.close() has not
\* run to the end: the close was not yet called, or it threw.
NotClosedBrowsers == IF browser \in {"open", "closeFailed"} THEN 1 ELSE 0

\* The browsers that were launched and on which browser.close() has not
\* yet been called.
NotTornDownBrowsers == IF browser = "open" THEN 1 ELSE 0

\* The teardown of the call has been attempted: the finally block has run,
\* calling browser.close() once unless the launch itself had failed.
TeardownAttempted ==
  /\ pc \in {"done", "settled"}
  /\ IF HasRun("launch") /\ thrown # "launch"
     THEN closes = 1 /\ browser \in {"closed", "closeFailed"}
     ELSE closes = 0 /\ browser = "undefined"

C30_ValidationBeforeAdmission ==
  [][\A seed \in SeedInputs, dimension \in DimensionInputs :
       (~ValidInput(seed, dimension) /\ Submit(seed, dimension))
       => (/\ IsError(res', 400, IF SpecValidSeed(seed) THEN "INVALID_DIMENSION" ELSE "INVALID_SEED")
           /\ ~IsError(res', 429, "TOO_MANY_JOBS"))]_vars

\* ----------------------------------------------------------------- C31
\* The text is a run of decimal digits, white space around it aside.
IsIntegerText(cs) ==
  /\ Trim(cs) # <<>>
  /\ \A i \in 1..Len(Trim(cs)) : DigitValue(Trim(cs)[i], 10) >= 0

\* An integer of the supported range: the number itself, or a text that
\* is the digits of one.
IsSupportedSize(v) ==
  \/ SpecValidSize(v)
  \/ /\ v.type = "string"
     /\ IsIntegerText(v.chars)
     /\ ParseDigits(Trim(v.chars), 10, 0, FALSE).num \in MinSize..MaxSize

\* C31: isValidSize answers true exactly for the integers 2 through 16:
\* every integer below 2 or above 16, every number that is not an integer
\* and every value that is not numeric is answered false.
C31_SizeAcceptsExactlyRange ==
  ("value" \in DOMAIN resolved)
  => (resolved["value"] <=> IsSupportedSize(args.size))

\* ----------------------------------------------------------------- C32
DimensionNamesLower == {OVERWORLD, NETHER, END}

\* The lower-case name the claim says is stored for a valid dimension.
NormalisedName(v) == IF v = JsUndefined THEN OVERWORLD ELSE ToLowerCase(v.chars)

C33_CropInsideViewport ==
  Cropped
  => LET c == crop.cropParams
     IN /\ c.left >= 0
        /\ c.top >= 0
        /\ c.left + c.width <= viewport.width
        /\ c.top + c.height <= viewport.height

\* The crop of the largest size was computed: it ends 40 pixels above the
\* lower edge of the viewport.
C33_Witness ==
  /\ Cropped
  /\ args.size = MaxSize
  /\ crop.cropParams.top + crop.cropParams.height = viewport.height - 40

\* ----------------------------------------------------------------- C34
\* C34: at size 8, for overworld and end, the crop and output size the
\* size-parameterized processImage hands to sharp are those of the fixed
\* 8k processImage: left 1220, top 620, width 1000, height 1000, output
\* size 1000.
C34_AgreesWithFixed8k ==
  (Cropped /\ args.size = 8 /\ args.dimension \in {OVERWORLD, END})
  => (/\ crop = processImageCrop8k(args.dimension)
      /\ crop.cropParams = [left |-> 1220, top |-> 620, width |-> 1000, height |-> 1000]
      /\ crop.finalSize = 1000)

\* The crop of size 8 was computed for the end and the call has resolved
\* with the ready object.
C34_Witness ==
  /\ pc = "done"
  /\ thrown = ""
  /\ Cropped
  /\ args.size = 8
  /\ args.dimension = END
  /\ crop.cropParams.left = 1220

====
